---- MODULE Spec2Model ----
(***************************************************************************)
(* brr: RSVP speed reader.  Model of the reading session (internal/reader  *)
(* Reader) and of the terminal driver that feeds it (cmd main.go model,    *)
(* a bubbletea program: Init / Update, tick commands, tea.Quit); of the    *)
(* position store (internal/state StateStore, ComputeHash); and of the     *)
(* chapter extraction of the Markdown and EPUB formats.  Each part has its *)
(* own specification; the variables of the other parts stay at rest.       *)
(*                                                                         *)
(* Strings are sequences of one-character strings.  Indices into Words,    *)
(* SentenceStarts and Chapters are the Go (0-based) indices; element i of  *)
(* a Go slice s is s[i+1] here.                                            *)
(***************************************************************************)
EXTENDS Integers, Sequences, FiniteSets, TLC

\* ------------------------------------------------------------------ bounds
MaxWords == 3
MaxChapters == 2
MaxTicks == 2

\* ------------------------------------------------------- program constants
MaxWPM == 1500
MinWPM == 100
SpeedStep == 50
DefaultWPM == 300

\* --------------------------------------------------------------- inputs
\* Values of the -w flag: the flag is an unchecked int handed to NewReader.
StartWPMs == {50, MinWPM, DefaultWPM, 1480, MaxWPM, 1550}

\* The two kinds of word the sentence indexer distinguishes.
PlainWord == <<"a">>
StopWord == <<"a", ".">>
WordKinds == {PlainWord, StopWord}

RECURSIVE WordLists(_)
WordLists(n) ==
    IF n = 0 THEN {<<>>}
    ELSE LET shorter == WordLists(n - 1)
         IN  shorter \cup {Append(ws, w) : ws \in {x \in shorter : Len(x) = n - 1}, w \in WordKinds}

\* A text holding the given words, one blank between two words.
RECURSIVE JoinWords(_)
JoinWords(ws) ==
    IF ws = <<>> THEN <<>>
    ELSE IF Len(ws) = 1 THEN Head(ws)
    ELSE Head(ws) \o <<" ">> \o JoinWords(Tail(ws))

Texts == {JoinWords(ws) : ws \in WordLists(MaxWords)}

\* ----------------------------------------------------- tokenizer, indexer
Whitespace == {" ", "\t", "\n"}

RECURSIVE Fields_everySeparator(_, _, _)
Fields_everySeparator(text, cur, acc) ==
    IF text = <<>>
    THEN IF cur = <<>> THEN acc ELSE Append(acc, cur)
    ELSE IF Head(text) \in Whitespace
         THEN Fields_everySeparator(Tail(text), <<>>, Append(acc, cur))
         ELSE Fields_everySeparator(Tail(text), Append(cur, Head(text)), acc)

RECURSIVE Fields(_, _, _)
Fields(text, cur, acc) ==
    IF text = <<>>
    THEN IF cur = <<>> THEN acc ELSE Append(acc, cur)
    ELSE IF Head(text) \in Whitespace
         THEN Fields(Tail(text), <<>>, IF cur = <<>> THEN acc ELSE Append(acc, cur))
         ELSE Fields(Tail(text), Append(cur, Head(text)), acc)

ParseText(text) == Fields(text, <<>>, <<>>)

RECURSIVE StartsFrom_pastEnd(_, _, _)
StartsFrom_pastEnd(words, i, starts) ==
    IF i >= Len(words) THEN starts
    ELSE LET word == words[i + 1]
         IN  IF /\ Len(word) > 0
                /\ word[Len(word)] \in {".", "!", "?"}
             THEN StartsFrom_pastEnd(words, i + 1, Append(starts, i + 1))
             ELSE StartsFrom_pastEnd(words, i + 1, starts)

RECURSIVE StartsFrom(_, _, _)
StartsFrom(words, i, starts) ==
    IF i >= Len(words) THEN starts
    ELSE LET word == words[i + 1]
         IN  IF /\ Len(word) > 0
                /\ word[Len(word)] \in {".", "!", "?"}
                /\ i + 1 < Len(words)
             THEN StartsFrom(words, i + 1, Append(starts, i + 1))
             ELSE StartsFrom(words, i + 1, starts)

FindSentenceStarts(words) == StartsFrom(words, 0, <<0>>)

\* ------------------------------------------------------------------ state
VARIABLES
    Words,            \* Reader.Words
    SentenceStarts,   \* Reader.SentenceStarts
    CurrentIndex,     \* Reader.CurrentIndex
    WPM,              \* Reader.WPM
    Paused,           \* Reader.Paused
    Chapters,         \* Reader.Chapters
    CurrentChapter,   \* Reader.CurrentChapter
    arrowRecent,      \* now.Sub(LastArrowPress) <= 500ms
    quitting,         \* model.quitting
    ticks,            \* tick commands scheduled and not yet delivered
    quitCmd,          \* a tea.Quit command was returned and not yet handled
    running,          \* the bubbletea program has not exited
    lastCall          \* last Reader method called, with the value it returned

\* The position store (package state): the state file, the store's map and
\* lock, each goroutine's position inside a store method, and the outcome of
\* the calls that have returned.
VARIABLES
    file,            \* the state file: [kind, entries]
    data,            \* StateStore.data
    opened,          \* NewStateStore returned a store
    mu,              \* StateStore.mu: [writer, readers]
    pc,              \* per goroutine: [at, fp, n]
    lastOp,          \* the store call that returned last, with its result
    lastSave,        \* "none", or whether the last mutation's save succeeded
    openedFrom       \* kind of the state file NewStateStore found

\* One call of a function of the ingestion pipeline or of ComputeHash:
\* its argument, and <<>> or <<result>>.
VARIABLES input, output

\* The driver's surroundings: <<>> or <<d>>, d the delay in ms of the tick
\* command the last Update call returned, where a specification follows the
\* commands; and whether the user has stopped pressing keys.
VARIABLES cmdDelay, userIdle

session == <<Words, SentenceStarts, CurrentIndex, WPM, Paused, Chapters,
             CurrentChapter, arrowRecent, quitting, ticks, quitCmd, running,
             lastCall>>

store == <<file, data, opened, mu, pc, lastOp, lastSave, openedFrom>>

call == <<input, output>>

\* The formats registered with package reader, in registration order.
VARIABLES registry

\* The StateStore values of further host processes working on the same state
\* file, where a specification follows them: per process whether
\* NewStateStore returned a store, the store's data, and the successful
\* SetPosition calls made on it.
VARIABLES instances

surroundings == <<cmdDelay, userIdle>>

vars == <<session, store, call, surroundings, registry, instances>>

offSession == <<store, call, surroundings, registry, instances>>

offStore == <<session, call, surroundings, registry, instances>>

offCall == <<session, store, surroundings, registry, instances>>

\* Commands are not followed and the user may press keys.
NoSurroundings ==
    /\ cmdDelay = <<>>
    /\ userIdle = FALSE

\* The registry is not followed.
NoFormats == registry = <<>>

\* No session is running.
NoSession ==
    /\ Words = <<>>
    /\ SentenceStarts = <<>>
    /\ CurrentIndex = 0
    /\ WPM = DefaultWPM
    /\ Paused = FALSE
    /\ Chapters = <<>>
    /\ CurrentChapter = 0
    /\ arrowRecent = FALSE
    /\ quitting = FALSE
    /\ ticks = 0
    /\ quitCmd = FALSE
    /\ running = FALSE
    /\ lastCall = <<>>
    /\ NoSurroundings
    /\ NoFormats

\* No store has been opened.
NoStore ==
    /\ file = [kind |-> "missing", entries |-> <<>>]
    /\ data = {}
    /\ opened = FALSE
    /\ mu = [writer |-> FALSE, readers |-> 0]
    /\ pc = <<>>
    /\ lastOp = <<>>
    /\ lastSave = "none"
    /\ openedFrom = "missing"
    /\ instances = <<>>

\* No pipeline call is under way.
NoCall ==
    /\ input = <<>>
    /\ output = <<>>

reader == <<Words, SentenceStarts, CurrentIndex, WPM, Paused, Chapters,
            CurrentChapter>>

\* NewReader: the session built from a text and a speed.
NewReader(text, wpm) ==
    /\ Words = ParseText(text)
    /\ SentenceStarts = FindSentenceStarts(ParseText(text))
    /\ CurrentIndex = 0
    /\ WPM = wpm
    /\ Paused = FALSE
    /\ Chapters = <<>>
    /\ CurrentChapter = 0
    /\ arrowRecent = FALSE
    /\ lastCall = <<>>

\* strings.TrimSpace(text) == ""
isBlank(text) == \A k \in 1 .. Len(text) : text[k] \in Whitespace

\* main: a blank text is refused; newModel builds the session and model.Init
\* schedules the first tick.
Init ==
    \E text \in Texts, wpm \in StartWPMs :
        /\ ~isBlank(text)
        /\ NewReader(text, wpm)
        /\ quitting = FALSE
        /\ ticks = 1
        /\ quitCmd = FALSE
        /\ running = TRUE
        /\ NoStore
        /\ NoCall
        /\ NoSurroundings
        /\ NoFormats

\* A library host: any text, no driver, no tick.
InitReader ==
    \E text \in Texts, wpm \in StartWPMs :
        /\ NewReader(text, wpm)
        /\ quitting = FALSE
        /\ ticks = 0
        /\ quitCmd = FALSE
        /\ running = TRUE
        /\ NoStore
        /\ NoCall
        /\ NoSurroundings
        /\ NoFormats

\* ------------------------------------------------------- reader functions
RECURSIVE prevSentence_notStrict(_, _, _)
prevSentence_notStrict(starts, i, cur) ==
    IF i < 0 THEN 0
    ELSE IF starts[i + 1] <= cur THEN starts[i + 1]
    ELSE prevSentence_notStrict(starts, i - 1, cur)

RECURSIVE prevSentence(_, _, _)
prevSentence(starts, i, cur) ==
    IF i < 0 THEN 0
    ELSE IF starts[i + 1] < cur THEN starts[i + 1]
    ELSE prevSentence(starts, i - 1, cur)

RECURSIVE nextSentence_noClamp(_, _, _, _)
nextSentence_noClamp(starts, i, cur, nwords) ==
    IF i >= Len(starts)
    THEN cur
    ELSE IF starts[i + 1] > cur THEN starts[i + 1]
    ELSE nextSentence_noClamp(starts, i + 1, cur, nwords)

RECURSIVE nextSentence_toLastStart(_, _, _, _)
nextSentence_toLastStart(starts, i, cur, nwords) ==
    IF i >= Len(starts)
    THEN starts[Len(starts)]
    ELSE IF starts[i + 1] > cur THEN starts[i + 1]
    ELSE nextSentence_toLastStart(starts, i + 1, cur, nwords)

RECURSIVE nextSentence(_, _, _, _)
nextSentence(starts, i, cur, nwords) ==
    IF i >= Len(starts)
    THEN IF nwords > 0 THEN nwords - 1 ELSE cur
    ELSE IF starts[i + 1] > cur THEN starts[i + 1]
    ELSE nextSentence(starts, i + 1, cur, nwords)

advanceOk_offByOne(cur, nwords) == cur < nwords

advanceOk_early(cur, nwords) == cur < nwords - 2

advanceOk(cur, nwords) == cur < nwords - 1

Progress_zeroBased(cur, words) == <<cur, Len(words)>>

Progress(cur, words) == <<cur + 1, Len(words)>>

AtEnd(cur, nwords) == cur >= nwords - 1

RECURSIVE chapterAt(_, _, _)
chapterAt(chapters, i, cur) ==
    IF i < 0 THEN 0
    ELSE IF cur >= chapters[i + 1].WordStart THEN i
    ELSE chapterAt(chapters, i - 1, cur)

updateCurrentChapter(chapters, cur) == chapterAt(chapters, Len(chapters) - 1, cur)

speedUp(wpm) == IF wpm < MaxWPM THEN wpm + SpeedStep ELSE wpm

speedDown(wpm) == IF wpm > MinWPM THEN wpm - SpeedStep ELSE wpm

\* Chapter lists an extractor can return for a stream of nwords words: the
\* chapters follow one another from the first chapter's start to the last
\* word.  A chapter is named by its ordinal here.
ChapterStarts(nwords) ==
    {st \in SUBSET (0 .. nwords - 1) : Cardinality(st) <= MaxChapters}

RECURSIVE SortedStarts(_)
SortedStarts(st) ==
    IF st = {} THEN <<>>
    ELSE LET lo == CHOOSE x \in st : \A y \in st : x <= y
         IN  <<lo>> \o SortedStarts(st \ {lo})

ChaptersOf(st, nwords) ==
    LET ss == SortedStarts(st)
    IN  [k \in 1 .. Len(ss) |->
            [Title |-> k,
             WordStart |-> ss[k],
             WordEnd |-> IF k < Len(ss) THEN ss[k + 1] - 1 ELSE nwords - 1]]

ChapterLists(nwords) == {ChaptersOf(st, nwords) : st \in ChapterStarts(nwords)}

\* ------------------------------------------------------- Reader operations
\* Calls a host makes on the Reader directly.
Advance ==
    /\ running
    /\ UNCHANGED offSession
    /\ lastCall' = <<"Advance", advanceOk(CurrentIndex, Len(Words))>>
    /\ CurrentIndex' = IF advanceOk(CurrentIndex, Len(Words))
                       THEN CurrentIndex + 1 ELSE CurrentIndex
    /\ UNCHANGED <<Words, SentenceStarts, WPM, Paused, Chapters, CurrentChapter,
                   arrowRecent, quitting, ticks, quitCmd, running>>

JumpToPrevSentence ==
    /\ running
    /\ UNCHANGED offSession
    /\ CurrentIndex' = prevSentence(SentenceStarts, Len(SentenceStarts) - 1, CurrentIndex)
    /\ lastCall' = <<"JumpToPrevSentence">>
    /\ UNCHANGED <<Words, SentenceStarts, WPM, Paused, Chapters, CurrentChapter,
                   arrowRecent, quitting, ticks, quitCmd, running>>

JumpToNextSentence ==
    /\ running
    /\ UNCHANGED offSession
    /\ CurrentIndex' = nextSentence(SentenceStarts, 0, CurrentIndex, Len(Words))
    /\ lastCall' = <<"JumpToNextSentence">>
    /\ UNCHANGED <<Words, SentenceStarts, WPM, Paused, Chapters, CurrentChapter,
                   arrowRecent, quitting, ticks, quitCmd, running>>

JumpTargets == -1 .. Len(Words) + 1

jumpInBounds_inclusive(wordIndex, nwords) == wordIndex >= 0 /\ wordIndex <= nwords

jumpInBounds(wordIndex, nwords) == wordIndex >= 0 /\ wordIndex < nwords

JumpToChapterCall(wordIndex) ==
    /\ running
    /\ UNCHANGED offSession
    /\ IF jumpInBounds(wordIndex, Len(Words))
       THEN /\ CurrentIndex' = wordIndex
            /\ CurrentChapter' = updateCurrentChapter(Chapters, wordIndex)
       ELSE UNCHANGED <<CurrentIndex, CurrentChapter>>
    /\ lastCall' = <<"JumpToChapter">>
    /\ UNCHANGED <<Words, SentenceStarts, WPM, Paused, Chapters,
                   arrowRecent, quitting, ticks, quitCmd, running>>

JumpToChapter == \E wordIndex \in JumpTargets : JumpToChapterCall(wordIndex)

SetChapters ==
    /\ running
    /\ UNCHANGED offSession
    /\ \E chapters \in ChapterLists(Len(Words)) :
          /\ Chapters' = chapters
          /\ CurrentChapter' = updateCurrentChapter(chapters, CurrentIndex)
    /\ lastCall' = <<"SetChapters">>
    /\ UNCHANGED <<Words, SentenceStarts, CurrentIndex, WPM, Paused,
                   arrowRecent, quitting, ticks, quitCmd, running>>

\* ------------------------------------------------------ driver: model.Update
togglePause_set(paused) == TRUE

togglePause(paused) == ~paused

\* " ": toggle Paused; resuming schedules a tick.
updateSpace ==
    /\ running
    /\ Paused' = togglePause(Paused)
    /\ IF Paused
       THEN ticks < MaxTicks /\ ticks' = ticks + 1
       ELSE ticks' = ticks
    /\ UNCHANGED <<Words, SentenceStarts, CurrentIndex, WPM, Chapters, CurrentChapter,
                   arrowRecent, quitting, quitCmd, running, lastCall>>

KeySpace == updateSpace /\ UNCHANGED offSession

\* "+", "=": faster.
updatePlus ==
    /\ running
    /\ WPM' = speedUp(WPM)
    /\ UNCHANGED <<Words, SentenceStarts, CurrentIndex, Paused, Chapters, CurrentChapter,
                   arrowRecent, quitting, ticks, quitCmd, running, lastCall>>

KeyPlus == updatePlus /\ UNCHANGED offSession

\* "-": slower.
updateMinus ==
    /\ running
    /\ WPM' = speedDown(WPM)
    /\ UNCHANGED <<Words, SentenceStarts, CurrentIndex, Paused, Chapters, CurrentChapter,
                   arrowRecent, quitting, ticks, quitCmd, running, lastCall>>

KeyMinus == updateMinus /\ UNCHANGED offSession

KeyUp ==
    /\ running
    /\ UNCHANGED offSession
    /\ WPM' = speedUp(WPM)
    /\ UNCHANGED <<Words, SentenceStarts, CurrentIndex, Paused, Chapters, CurrentChapter,
                   arrowRecent, quitting, ticks, quitCmd, running, lastCall>>

KeyDown ==
    /\ running
    /\ UNCHANGED offSession
    /\ WPM' = speedDown(WPM)
    /\ UNCHANGED <<Words, SentenceStarts, CurrentIndex, Paused, Chapters, CurrentChapter,
                   arrowRecent, quitting, ticks, quitCmd, running, lastCall>>

\* An arrow key pauses unless it follows another arrow key within 500ms.
arrowPause(paused, recent) == IF ~recent THEN TRUE ELSE paused

KeyLeft ==
    /\ running
    /\ UNCHANGED offSession
    /\ Paused' = arrowPause(Paused, arrowRecent)
    /\ arrowRecent' = TRUE
    /\ CurrentIndex' = prevSentence(SentenceStarts, Len(SentenceStarts) - 1, CurrentIndex)
    /\ lastCall' = <<"JumpToPrevSentence">>
    /\ UNCHANGED <<Words, SentenceStarts, WPM, Chapters, CurrentChapter,
                   quitting, ticks, quitCmd, running>>

KeyRight ==
    /\ running
    /\ UNCHANGED offSession
    /\ Paused' = arrowPause(Paused, arrowRecent)
    /\ arrowRecent' = TRUE
    /\ CurrentIndex' = nextSentence(SentenceStarts, 0, CurrentIndex, Len(Words))
    /\ lastCall' = <<"JumpToNextSentence">>
    /\ UNCHANGED <<Words, SentenceStarts, WPM, Chapters, CurrentChapter,
                   quitting, ticks, quitCmd, running>>

KeyQuit ==
    /\ running
    /\ UNCHANGED offSession
    /\ quitting' = TRUE
    /\ quitCmd' = TRUE
    /\ UNCHANGED <<Words, SentenceStarts, CurrentIndex, WPM, Paused, Chapters,
                   CurrentChapter, arrowRecent, ticks, running, lastCall>>

\* tickMsg while paused: the handler returns at once, with no new tick.
tickDropped_never(paused) == FALSE

tickDropped(paused) == paused

ticksAfterTick_noNext(pending, more) == pending - 1

\* The tick handled is spent; tick(m.GetDelay()) schedules the next one
\* when Advance() returned true.
ticksAfterTick(pending, more) == IF more THEN pending ELSE pending - 1

\* A scheduled tick fires and its tickMsg is handled.
updateTick ==
    /\ running
    /\ ticks > 0
    /\ IF tickDropped(Paused)
       THEN /\ ticks' = ticks - 1
            /\ UNCHANGED <<CurrentIndex, quitting, quitCmd, lastCall>>
       ELSE /\ lastCall' = <<"Advance", advanceOk(CurrentIndex, Len(Words))>>
            /\ IF advanceOk(CurrentIndex, Len(Words))
               THEN /\ CurrentIndex' = CurrentIndex + 1
                    /\ ticks' = ticksAfterTick(ticks, TRUE)
                    /\ UNCHANGED <<quitting, quitCmd>>
               ELSE /\ ticks' = ticksAfterTick(ticks, FALSE)
                    /\ quitting' = TRUE
                    /\ quitCmd' = TRUE
                    /\ UNCHANGED CurrentIndex
    /\ UNCHANGED <<Words, SentenceStarts, WPM, Paused, Chapters, CurrentChapter,
                   arrowRecent, running>>

TickMsg == updateTick /\ UNCHANGED offSession

\* ------------------------------------------------------------ environment
\* More than 500ms go by since the last arrow key.
ArrowWindowEnds ==
    /\ running
    /\ UNCHANGED offSession
    /\ arrowRecent
    /\ arrowRecent' = FALSE
    /\ UNCHANGED <<Words, SentenceStarts, CurrentIndex, WPM, Paused, Chapters,
                   CurrentChapter, quitting, ticks, quitCmd, running, lastCall>>

\* The runtime handles the QuitMsg of a tea.Quit command: the program exits.
QuitMsg ==
    /\ running
    /\ UNCHANGED offSession
    /\ quitCmd
    /\ running' = FALSE
    /\ quitCmd' = FALSE
    /\ UNCHANGED <<Words, SentenceStarts, CurrentIndex, WPM, Paused, Chapters,
                   CurrentChapter, arrowRecent, quitting, ticks, lastCall>>

\* The terminal program: key and tick messages handled by Update, and calls
\* on the embedded Reader.  It never sets chapters.
Next ==
    \/ Advance
    \/ JumpToPrevSentence
    \/ JumpToNextSentence
    \/ JumpToChapter
    \/ KeySpace
    \/ KeyPlus
    \/ KeyMinus
    \/ KeyUp
    \/ KeyDown
    \/ KeyLeft
    \/ KeyRight
    \/ KeyQuit
    \/ TickMsg
    \/ ArrowWindowEnds
    \/ QuitMsg

Spec == Init /\ [][Next]_vars

\* model.View renders "Reading complete!": the driver's completed state.
viewComplete == quitting /\ AtEnd(CurrentIndex, Len(Words))

\* A host that uses the Reader as a library, chapters included.
NextReader ==
    \/ SetChapters
    \/ Advance
    \/ JumpToPrevSentence
    \/ JumpToNextSentence
    \/ JumpToChapter

SpecReader == InitReader /\ [][NextReader]_vars

\* A host that only calls Advance() on a new session.
NextAdvance == Advance

SpecAdvance == InitReader /\ [][NextAdvance]_vars

\* ------------------------------------------- driver: a user who goes idle
\* A key event reaches Update, as long as the user presses keys.
PressKey ==
    /\ ~userIdle
    /\ \/ KeySpace
       \/ KeyPlus
       \/ KeyMinus
       \/ KeyUp
       \/ KeyDown
       \/ KeyLeft
       \/ KeyRight
       \/ KeyQuit

\* The user presses no key from here on.
UserStops ==
    /\ running
    /\ ~userIdle
    /\ userIdle' = TRUE
    /\ UNCHANGED <<session, store, call, cmdDelay, registry, instances>>

NextLive ==
    \/ PressKey
    \/ UserStops
    \/ TickMsg
    \/ ArrowWindowEnds
    \/ QuitMsg

\* main without a -w flag.
InitLive ==
    /\ Init
    /\ WPM = DefaultWPM

\* The bubbletea runtime delivers every tick it was asked for and carries
\* out the tea.Quit command.
SpecLive ==
    /\ InitLive
    /\ [][NextLive]_vars
    /\ WF_vars(TickMsg)
    /\ WF_vars(QuitMsg)

\* ------------------------------------------------- driver: tick commands
GetDelay_intDivFirst(wpm) == (60 \div wpm) * 1000

\* time.Duration(60.0/float64(WPM)*1000) * time.Millisecond: the float
\* quotient is truncated to whole milliseconds, which for every WPM of
\* 1 .. 3000 is the integer quotient of 60000 by WPM.
GetDelay(wpm) == 60000 \div wpm

\* Every -w value of the supported range.
TimerWPMs == MinWPM .. MaxWPM

\* A text of MaxWords plain words.
TimerText == JoinWords([k \in 1 .. MaxWords |-> PlainWord])

\* main and model.Init, the command model.Init returns followed.
InitTimer ==
    \E wpm \in TimerWPMs :
        /\ NewReader(TimerText, wpm)
        /\ quitting = FALSE
        /\ ticks = 1
        /\ quitCmd = FALSE
        /\ running = TRUE
        /\ NoStore
        /\ NoCall
        /\ cmdDelay = <<GetDelay(wpm)>>
        /\ userIdle = FALSE
        /\ NoFormats

\* " " with the command it returns: tick(m.GetDelay()) on resuming, else nil.
KeySpaceCmd ==
    /\ updateSpace
    /\ cmdDelay' = IF Paused THEN <<GetDelay(WPM)>> ELSE <<>>
    /\ UNCHANGED <<store, call, userIdle, registry, instances>>

\* "+" with the command it returns: nil.
KeyPlusCmd ==
    /\ updatePlus
    /\ cmdDelay' = <<>>
    /\ UNCHANGED <<store, call, userIdle, registry, instances>>

\* "-" with the command it returns: nil.
KeyMinusCmd ==
    /\ updateMinus
    /\ cmdDelay' = <<>>
    /\ UNCHANGED <<store, call, userIdle, registry, instances>>

\* tickMsg with the command it returns: nil when paused, tick(m.GetDelay())
\* when Advance() returned true, tea.Quit at the end.
TickMsgCmd ==
    /\ updateTick
    /\ cmdDelay' = IF ~tickDropped(Paused) /\ advanceOk(CurrentIndex, Len(Words))
                   THEN <<GetDelay(WPM)>>
                   ELSE <<>>
    /\ UNCHANGED <<store, call, userIdle, registry, instances>>

NextTimer ==
    \/ KeySpaceCmd
    \/ KeyPlusCmd
    \/ KeyMinusCmd
    \/ TickMsgCmd
    \/ QuitMsg

SpecTimer == InitTimer /\ [][NextTimer]_vars

\* ---------------------------------------------------------- position store
MaxFingerprints == 2
NumProcs == 2

\* Content fingerprints, numbered in the order of their hex strings.
Fingerprints == 1 .. MaxFingerprints

\* Word indexes a host saves: the first word and a later one.
WordIndexes == {0, 3}

\* Goroutines of the host that share the store.
Procs == 1 .. NumProcs

\* map[string]ReadingState: a set of <<fingerprint, word index>> with one
\* pair per fingerprint at most.
Maps ==
    {m \in SUBSET (Fingerprints \X WordIndexes) :
        \A a \in m, b \in m : a[1] = b[1] => a = b}

hasRecord(m, hash) == \E e \in m : e[1] = hash

\* GetPosition's map lookup: the record's WordIndex, 0 without a record.
getPosition(m, hash) ==
    IF hasRecord(m, hash) THEN (CHOOSE e \in m : e[1] = hash)[2] ELSE 0

\* s.data[hash] = ReadingState{WordIndex: wordIndex}
mapSet(m, hash, wordIndex) == {e \in m : e[1] # hash} \cup {<<hash, wordIndex>>}

mapDelete_all(m, hash) == {}

\* delete(s.data, hash)
mapDelete(m, hash) == {e \in m : e[1] # hash}

RECURSIVE MarshalFrom_omitsZero(_, _)
MarshalFrom_omitsZero(m, k) ==
    IF k > MaxFingerprints THEN <<>>
    ELSE (IF hasRecord(m, k) /\ getPosition(m, k) # 0
          THEN <<<<k, getPosition(m, k)>>>> ELSE <<>>)
         \o MarshalFrom_omitsZero(m, k + 1)

\* json.MarshalIndent of the map: one member per record, keys in order.
RECURSIVE MarshalFrom(_, _)
MarshalFrom(m, k) ==
    IF k > MaxFingerprints THEN <<>>
    ELSE (IF hasRecord(m, k) THEN <<<<k, getPosition(m, k)>>>> ELSE <<>>)
         \o MarshalFrom(m, k + 1)

Marshal(m) == MarshalFrom(m, 1)

\* json.Unmarshal into the map: members in order, a repeated key overwrites.
RECURSIVE Unmarshal(_)
Unmarshal(entries) ==
    IF entries = <<>> THEN {}
    ELSE mapSet(Unmarshal(SubSeq(entries, 1, Len(entries) - 1)),
                entries[Len(entries)][1], entries[Len(entries)][2])

NoFile == [kind |-> "missing", entries |-> <<>>]

JSONFile(entries) == [kind |-> "json", entries |-> entries]

\* A file json.Unmarshal rejects; entries are the members it holds before
\* the damage.
CorruptFile(entries) == [kind |-> "corrupt", entries |-> entries]

InitialFiles ==
    {NoFile}
        \cup {JSONFile(Marshal(m)) : m \in Maps}
        \cup {CorruptFile(<<>>), CorruptFile(<<<<1, 3>>>>)}

\* load: a missing file is no error; a file that does not parse is one, and
\* may have filled part of the map.
load(f) ==
    IF f.kind = "missing" THEN [err |-> FALSE, data |-> {}]
    ELSE [err |-> f.kind = "corrupt", data |-> Unmarshal(f.entries)]

NewStateStore_keepsPartial(dirOk, f) ==
    IF ~dirOk THEN [err |-> TRUE, data |-> {}]
    ELSE [err |-> FALSE, data |-> load(f).data]

\* NewStateStore: fails only when the state directory cannot be made; a
\* failed load leaves an empty map.
NewStateStore(dirOk, f) ==
    IF ~dirOk THEN [err |-> TRUE, data |-> {}]
    ELSE [err |-> FALSE, data |-> IF load(f).err THEN {} ELSE load(f).data]

\* os.WriteFile: writes the whole content, or fails before touching the
\* file, or fails after truncating it.
WriteOutcomes == {"written", "refused", "truncated"}

writeFile(f, entries, outcome) ==
    IF outcome = "written" THEN JSONFile(entries)
    ELSE IF outcome = "refused" THEN f
    ELSE CorruptFile(<<>>)

canRLock_ignoresWriter(m) == TRUE

\* sync.RWMutex
canRLock(m) == ~m.writer

canLock(m) == ~m.writer /\ m.readers = 0

Unlocked == [writer |-> FALSE, readers |-> 0]

\* s.data[hash] with its ok flag: the record of hash, if there is one.
recordOf(m, hash) == {e \in m : e[1] = hash}

\* A goroutine outside every method. Inside one, was is the record the
\* map held for fp when the call took the lock.
idle == [at |-> "idle", fp |-> 0, n |-> 0, was |-> {}]

returned(op, fp, n, err) == [op |-> op, fp |-> fp, n |-> n, err |-> err]

\* The host has a store opened on some state file.
InitStore ==
    /\ file \in InitialFiles
    /\ data = NewStateStore(TRUE, file).data
    /\ opened = TRUE
    /\ mu = Unlocked
    /\ pc = [p \in Procs |-> idle]
    /\ lastOp = returned("NewStateStore", 0, 0, FALSE)
    /\ lastSave = "none"
    /\ openedFrom = file.kind
    /\ instances = <<>>
    /\ NoSession
    /\ NoCall

\* GetPosition: s.mu.RLock()
GetPositionRLock(p) ==
    /\ opened
    /\ pc[p].at = "idle"
    /\ canRLock(mu)
    /\ \E hash \in Fingerprints :
          pc' = [pc EXCEPT ![p] = [at |-> "GetPosition", fp |-> hash, n |-> 0,
                                    was |-> recordOf(data, hash)]]
    /\ mu' = [mu EXCEPT !.readers = @ + 1]
    /\ UNCHANGED <<file, data, opened, lastOp, lastSave, openedFrom>>
    /\ UNCHANGED offStore

\* GetPosition: the lookup, the deferred RUnlock and the return.
GetPositionReturn(p) ==
    /\ pc[p].at = "GetPosition"
    /\ lastOp' = returned("GetPosition", pc[p].fp, getPosition(data, pc[p].fp), FALSE)
    /\ mu' = [mu EXCEPT !.readers = @ - 1]
    /\ pc' = [pc EXCEPT ![p] = idle]
    /\ UNCHANGED <<file, data, opened, lastSave, openedFrom>>
    /\ UNCHANGED offStore

\* SetPosition: s.mu.Lock()
SetPositionLock(p) ==
    /\ opened
    /\ pc[p].at = "idle"
    /\ canLock(mu)
    /\ \E hash \in Fingerprints, wordIndex \in WordIndexes :
          pc' = [pc EXCEPT ![p] = [at |-> "SetPosition", fp |-> hash, n |-> wordIndex,
                                    was |-> recordOf(data, hash)]]
    /\ mu' = [mu EXCEPT !.writer = TRUE]
    /\ UNCHANGED <<file, data, opened, lastOp, lastSave, openedFrom>>
    /\ UNCHANGED offStore

\* SetPosition: the map assignment.
SetPositionUpdate(p) ==
    /\ pc[p].at = "SetPosition"
    /\ data' = mapSet(data, pc[p].fp, pc[p].n)
    /\ pc' = [pc EXCEPT ![p].at = "SetPosition.save"]
    /\ UNCHANGED <<file, opened, mu, lastOp, lastSave, openedFrom>>
    /\ UNCHANGED offStore

\* Clear: s.mu.Lock()
ClearLock(p) ==
    /\ opened
    /\ pc[p].at = "idle"
    /\ canLock(mu)
    /\ \E hash \in Fingerprints :
          pc' = [pc EXCEPT ![p] = [at |-> "Clear", fp |-> hash, n |-> 0,
                                    was |-> recordOf(data, hash)]]
    /\ mu' = [mu EXCEPT !.writer = TRUE]
    /\ UNCHANGED <<file, data, opened, lastOp, lastSave, openedFrom>>
    /\ UNCHANGED offStore

\* Clear: the map delete.
ClearUpdate(p) ==
    /\ pc[p].at = "Clear"
    /\ data' = mapDelete(data, pc[p].fp)
    /\ pc' = [pc EXCEPT ![p].at = "Clear.save"]
    /\ UNCHANGED <<file, opened, mu, lastOp, lastSave, openedFrom>>
    /\ UNCHANGED offStore

\* save, then the deferred Unlock and the return of save's error.
save(p, op) ==
    \E outcome \in WriteOutcomes :
        /\ file' = writeFile(file, Marshal(data), outcome)
        /\ lastOp' = returned(op, pc[p].fp, pc[p].n, outcome # "written")
        /\ lastSave' = IF outcome = "written" THEN "ok" ELSE "failed"
        /\ mu' = [mu EXCEPT !.writer = FALSE]
        /\ pc' = [pc EXCEPT ![p] = idle]
        /\ UNCHANGED <<data, opened, openedFrom>>
        /\ UNCHANGED offStore

SetPositionSave(p) ==
    /\ pc[p].at = "SetPosition.save"
    /\ save(p, "SetPosition")

ClearSave(p) ==
    /\ pc[p].at = "Clear.save"
    /\ save(p, "Clear")

\* The host starts again and opens a new store on the state directory.
NewStateStoreCall(dirOk) ==
    /\ \A p \in Procs : pc[p] = idle
    /\ opened' = ~NewStateStore(dirOk, file).err
    /\ data' = NewStateStore(dirOk, file).data
    /\ lastOp' = returned("NewStateStore", 0, 0, NewStateStore(dirOk, file).err)
    /\ lastSave' = "none"
    /\ openedFrom' = file.kind
    /\ mu' = Unlocked
    /\ UNCHANGED <<file, pc>>
    /\ UNCHANGED offStore

OpenStore == \E dirOk \in BOOLEAN : NewStateStoreCall(dirOk)

NextStore ==
    \/ \E p \in Procs : GetPositionRLock(p)
    \/ \E p \in Procs : GetPositionReturn(p)
    \/ \E p \in Procs : SetPositionLock(p)
    \/ \E p \in Procs : SetPositionUpdate(p)
    \/ \E p \in Procs : SetPositionSave(p)
    \/ \E p \in Procs : ClearLock(p)
    \/ \E p \in Procs : ClearUpdate(p)
    \/ \E p \in Procs : ClearSave(p)
    \/ OpenStore

SpecStore == InitStore /\ [][NextStore]_vars

\* ------------------------------------------- several stores on one file
MaxInstances == 3

\* Host processes, each with a StateStore of its own.
Instances == 1 .. MaxInstances

notOpened == [opened |-> FALSE, data |-> {}, saved |-> {}]

\* Some state file, and no process has opened a store yet.
InitInstances ==
    /\ file \in InitialFiles
    /\ instances = [i \in Instances |-> notOpened]
    /\ data = {}
    /\ opened = FALSE
    /\ mu = Unlocked
    /\ pc = <<>>
    /\ lastOp = <<>>
    /\ lastSave = "none"
    /\ openedFrom = "missing"
    /\ NoSession
    /\ NoCall

\* Process i starts and calls NewStateStore: its store loads the file as it
\* is now.
InstanceOpen(i) ==
    /\ ~instances[i].opened
    /\ instances' = [instances EXCEPT ![i] =
                        [opened |-> TRUE,
                         data |-> NewStateStore(TRUE, file).data,
                         saved |-> {}]]
    /\ UNCHANGED <<file, data, opened, mu, pc, lastOp, lastSave, openedFrom>>
    /\ UNCHANGED <<session, call, surroundings, registry>>

\* Process i calls SetPosition on its store: the map assignment, then save
\* writes the whole of this store's map over the file.
InstanceSetPosition(i) ==
    \E hash \in Fingerprints, wordIndex \in WordIndexes, outcome \in WriteOutcomes :
        LET m == mapSet(instances[i].data, hash, wordIndex)
        IN  /\ instances[i].opened
            /\ instances[i].saved = {}
            /\ file' = writeFile(file, Marshal(m), outcome)
            /\ instances' = [instances EXCEPT ![i] =
                                [opened |-> TRUE,
                                 data |-> m,
                                 saved |-> IF outcome = "written"
                                           THEN {<<hash, wordIndex>>}
                                           ELSE {}]]
            /\ UNCHANGED <<data, opened, mu, pc, lastOp, lastSave, openedFrom>>
            /\ UNCHANGED <<session, call, surroundings, registry>>

NextInstances ==
    \/ \E i \in Instances : InstanceOpen(i)
    \/ \E i \in Instances : InstanceSetPosition(i)

SpecInstances == InitInstances /\ [][NextInstances]_vars

\* ------------------------------------------------------------ ComputeHash
MaxRuns == 2

hashBytes == 8192
digestBytes == 16

FileNames == {"a.txt", "b.md"}

\* A file's bytes, written as runs of one byte value: <<[b, n], ...>> with
\* n > 0 and neighbouring runs of different bytes.
RunLengths == {1, hashBytes - 1, hashBytes, hashBytes + 1}

Runs == [b : {"x", "y"}, n : RunLengths]

RECURSIVE Contents(_)
Contents(k) ==
    IF k = 0 THEN {<<>>}
    ELSE LET shorter == Contents(k - 1)
         IN  shorter \cup
             {Append(c, r) : c \in {x \in shorter : Len(x) = k - 1},
                             r \in Runs}

normalized(c) == \A i \in 1 .. Len(c) - 1 : c[i].b # c[i + 1].b

FileContents == {c \in Contents(MaxRuns) : normalized(c)}

RECURSIVE size(_)
size(c) == IF c = <<>> THEN 0 ELSE c[1].n + size(Tail(c))

readFull_wholeFile(c, k) == c

\* io.ReadFull(f, buf): the first k bytes, or all of a shorter file.
RECURSIVE readFull(_, _)
readFull(c, k) ==
    IF k = 0 \/ c = <<>> THEN <<>>
    ELSE IF c[1].n <= k THEN <<c[1]>> \o readFull(Tail(c), k - c[1].n)
    ELSE <<[b |-> c[1].b, n |-> k]>>

\* sha256.Sum256 of the bytes read, taken as free of collisions: the digest
\* stands for the bytes it was computed from.
sha256(bytes) == [of |-> bytes, bytes |-> 32]

\* hex.EncodeToString(hash[:16]): two characters per byte kept.
hexOfPrefix(digest, k) == [digest |-> digest.of, chars |-> 2 * k]

\* ComputeHash on a file that opens and reads.
ComputeHash(f) ==
    [err |-> FALSE,
     hash |-> hexOfPrefix(sha256(readFull(f.content, hashBytes)), digestBytes)]

HashInputs ==
    {<<[name |-> n1, content |-> c1], [name |-> n2, content |-> c2]>> :
        n1 \in FileNames, n2 \in FileNames,
        c1 \in FileContents, c2 \in FileContents}

InitHash ==
    /\ input \in HashInputs
    /\ output = <<>>
    /\ NoSession
    /\ NoStore

\* The host fingerprints the two files.
ComputeHashCall ==
    /\ output = <<>>
    /\ output' = <<<<ComputeHash(input[1]), ComputeHash(input[2])>>>>
    /\ UNCHANGED input
    /\ UNCHANGED offCall

NextHash == ComputeHashCall

SpecHash == InitHash /\ [][NextHash]_vars

\* ------------------------------------------------------ ingestion pipeline
MaxLines == 3
MaxSpine == 3

\* strings.TrimSpace
RECURSIVE TrimLeft(_)
TrimLeft(s) ==
    IF s # <<>> /\ Head(s) \in Whitespace THEN TrimLeft(Tail(s)) ELSE s

RECURSIVE TrimRight(_)
TrimRight(s) ==
    IF s # <<>> /\ s[Len(s)] \in Whitespace
    THEN TrimRight(SubSeq(s, 1, Len(s) - 1)) ELSE s

TrimSpace(s) == TrimRight(TrimLeft(s))

\* Lines of a Markdown file: blank, text, headers of level 1 and 2, a header
\* with a blank title, and lines that look like headers and are none.
MdLines ==
    { <<>>,
      <<"a">>,
      <<"a", " ", "a", ".">>,
      <<"#", " ", "a">>,
      <<"#", "#", " ", "a", " ", "a">>,
      <<"#", " ", " ">>,
      <<"#", " ">>,
      <<"#", "a">>,
      <<" ", "#", " ", "a">> }

RECURSIVE LinesUpTo(_)
LinesUpTo(n) ==
    IF n = 0 THEN {<<>>}
    ELSE LET shorter == LinesUpTo(n - 1)
         IN  shorter \cup {Append(d, l) : d \in {x \in shorter : Len(x) = n - 1}, l \in MdLines}

\* The number of '#' a line starts with.
RECURSIVE leadingHashes(_)
leadingHashes(line) ==
    IF line # <<>> /\ Head(line) = "#" THEN 1 + leadingHashes(Tail(line)) ELSE 0

\* headerRegex ^(#{1,6})\s+(.+)$ matches the line.
isHeader_anyHash(line) == leadingHashes(line) >= 1

isHeader(line) ==
    LET h == leadingHashes(line)
    IN  /\ h >= 1
        /\ h <= 6
        /\ Len(line) >= h + 2
        /\ line[h + 1] \in Whitespace

\* strings.TrimSpace(match[2])
headerTitle(line) == TrimSpace(SubSeq(line, leadingHashes(line) + 2, Len(line)))

closeChapter_pastEnd(chapter, nwords) == [chapter EXCEPT !.WordEnd = nwords]

\* currentChapter.WordEnd = len(allWords) - 1
closeChapter(chapter, nwords) == [chapter EXCEPT !.WordEnd = nwords - 1]

\* One turn of the scanner loop of MarkdownFormat.ExtractChapters.
mdLine(st, line) ==
    LET hdr == isHeader(line)
        words == ParseText(line)
    IN  [allWords |-> st.allWords \o words,
         chapters |->
            IF hdr /\ st.currentChapter # <<>> /\ Len(st.currentWords) > 0
            THEN Append(st.chapters,
                        closeChapter(st.currentChapter[1], Len(st.allWords)))
            ELSE st.chapters,
         currentChapter |->
            IF hdr
            THEN <<[Title |-> headerTitle(line),
                    WordStart |-> Len(st.allWords),
                    WordEnd |-> 0]>>
            ELSE st.currentChapter,
         currentWords |-> (IF hdr THEN <<>> ELSE st.currentWords) \o words]

RECURSIVE mdScan(_, _)
mdScan(st, lines) ==
    IF lines = <<>> THEN st ELSE mdScan(mdLine(st, Head(lines)), Tail(lines))

noResult ==
    [err |-> TRUE, text |-> <<>>, chapters |-> <<>>, words |-> <<>>,
     entries |-> <<>>]

\* MarkdownFormat.ExtractChapters
MarkdownExtractChapters(f) ==
    IF ~f.opens THEN noResult
    ELSE LET st == mdScan([allWords |-> <<>>, chapters |-> <<>>,
                           currentChapter |-> <<>>, currentWords |-> <<>>],
                          f.lines)
             closed == IF st.currentChapter # <<>> /\ Len(st.currentWords) > 0
                       THEN Append(st.chapters,
                                   closeChapter(st.currentChapter[1], Len(st.allWords)))
                       ELSE st.chapters
         IN  [err |-> FALSE,
              text |-> <<>>,
              chapters |->
                 IF Len(closed) = 0 /\ Len(st.allWords) > 0
                 THEN <<[Title |-> <<"Document">>,
                         WordStart |-> 0,
                         WordEnd |-> Len(st.allWords) - 1]>>
                 ELSE closed,
              words |-> st.allWords,
              entries |-> <<>>]

RECURSIVE fileContent_noNewlines(_)
fileContent_noNewlines(lines) ==
    IF lines = <<>> THEN <<>>
    ELSE Head(lines) \o fileContent_noNewlines(Tail(lines))

\* The bytes of the file whose lines the scanner yields: every line ends in
\* a newline.
RECURSIVE fileContent(_)
fileContent(lines) ==
    IF lines = <<>> THEN <<>>
    ELSE Head(lines) \o <<"\n">> \o fileContent(Tail(lines))

\* MarkdownFormat.Extract: the content of the file as it is.
MarkdownExtract(f) ==
    IF ~f.opens THEN noResult
    ELSE [err |-> FALSE, text |-> fileContent(f.lines),
          chapters |-> <<>>, words |-> <<>>, entries |-> <<>>]

headerLevel_oneBased(line) == leadingHashes(line)

\* level := len(match[1]) - 1
headerLevel(line) == leadingHashes(line) - 1

tocLine_skipsHeaderWords(st, line) ==
    [entries |->
        IF isHeader(line)
        THEN Append(st.entries,
                    [Title |-> headerTitle(line),
                     WordIndex |-> st.wordCount,
                     Level |-> headerLevel(line)])
        ELSE st.entries,
     wordCount |-> IF isHeader(line) THEN st.wordCount
                   ELSE st.wordCount + Len(ParseText(line))]

\* One turn of the scanner loop of MarkdownFormat.TOC.
tocLine(st, line) ==
    [entries |->
        IF isHeader(line)
        THEN Append(st.entries,
                    [Title |-> headerTitle(line),
                     WordIndex |-> st.wordCount,
                     Level |-> headerLevel(line)])
        ELSE st.entries,
     wordCount |-> st.wordCount + Len(ParseText(line))]

RECURSIVE tocScan(_, _)
tocScan(st, lines) ==
    IF lines = <<>> THEN st ELSE tocScan(tocLine(st, Head(lines)), Tail(lines))

\* MarkdownFormat.TOC
MarkdownTOC(f) ==
    IF ~f.opens THEN noResult
    ELSE [err |-> FALSE, text |-> <<>>, chapters |-> <<>>, words |-> <<>>,
          entries |-> tocScan([entries |-> <<>>, wordCount |-> 0], f.lines).entries]

\* The text nodes of a spine item's HTML, in document order.
HtmlDocs ==
    { <<>>,
      << <<" ">> >>,
      << <<"a">> >>,
      << <<" ", "a", ".", " ">>, <<"a", " ", "a">> >> }

\* A spine item: not resolved in the manifest, or failing to open, or
\* failing to read, or readable; title is what the NCX gives for its HREF,
\* <<>> when it gives nothing.
SpineItems ==
    [state : {"nil", "openfail", "readfail"}, nodes : {<<>>}, title : {<<>>}]
        \cup [state : {"ok"}, nodes : HtmlDocs, title : {<<>>, <<"T">>}]

RECURSIVE SpinesUpTo(_)
SpinesUpTo(n) ==
    IF n = 0 THEN {<<>>}
    ELSE LET shorter == SpinesUpTo(n - 1)
         IN  shorter \cup {Append(sp, it) : sp \in {x \in shorter : Len(x) = n - 1}, it \in SpineItems}

\* extractTextFromHTML: each text node trimmed, the non-empty ones written
\* with a blank after each.
RECURSIVE extractTextFromHTML(_)
extractTextFromHTML(nodes) ==
    IF nodes = <<>> THEN <<>>
    ELSE (IF TrimSpace(Head(nodes)) # <<>>
          THEN TrimSpace(Head(nodes)) \o <<" ">> ELSE <<>>)
         \o extractTextFromHTML(Tail(nodes))

usable_any(item) == TRUE

usable(item) == item.state = "ok"

\* The spine loop of ExtractTextFromEPUB.
RECURSIVE epubText(_)
epubText(spine) ==
    IF spine = <<>> THEN <<>>
    ELSE (IF usable(Head(spine))
          THEN extractTextFromHTML(Head(spine).nodes) \o <<" ">> ELSE <<>>)
         \o epubText(Tail(spine))

\* ExtractTextFromEPUB
ExtractTextFromEPUB(f) ==
    IF ~f.opens \/ f.rootfiles = 0 THEN noResult
    ELSE [err |-> FALSE, text |-> epubText(f.spine),
          chapters |-> <<>>, words |-> <<>>, entries |-> <<>>]

\* The spine loop of EPUBFormat.ExtractChapters, item i+1 of the spine next.
RECURSIVE epubChapters(_, _, _, _)
epubChapters(spine, i, chapters, allWords) ==
    IF i >= Len(spine) THEN [chapters |-> chapters, words |-> allWords]
    ELSE LET item == spine[i + 1]
             words == ParseText(extractTextFromHTML(item.nodes))
         IN  IF ~usable(item) \/ Len(words) = 0
             THEN epubChapters(spine, i + 1, chapters, allWords)
             ELSE epubChapters(spine, i + 1,
                     Append(chapters,
                            [Title |-> IF item.title # <<>> THEN item.title
                                       ELSE <<"Section", i + 1>>,
                             WordStart |-> Len(allWords),
                             WordEnd |-> Len(allWords) + Len(words) - 1]),
                     allWords \o words)

\* EPUBFormat.ExtractChapters
EPUBExtractChapters(f) ==
    IF ~f.opens \/ f.rootfiles = 0 THEN noResult
    ELSE [err |-> FALSE, text |-> <<>>,
          chapters |-> epubChapters(f.spine, 0, <<>>, <<>>).chapters,
          words |-> epubChapters(f.spine, 0, <<>>, <<>>).words,
          entries |-> <<>>]

\* buildAccurateSpineMap: for item i+1 of the spine and the items after it,
\* the word count at which each item that could be read was entered under
\* its HREF; 0 stands at the places of the items skipped.
RECURSIVE spineMap(_, _, _)
spineMap(spine, i, wordCount) ==
    IF i >= Len(spine) THEN <<>>
    ELSE LET item == spine[i + 1]
             words == ParseText(extractTextFromHTML(item.nodes))
         IN  IF ~usable(item)
             THEN <<0>> \o spineMap(spine, i + 1, wordCount)
             ELSE <<wordCount>> \o spineMap(spine, i + 1, wordCount + Len(words))

\* The navPoints of the NCX: one, at the top level, for every spine item
\* the NCX gives a title, in spine order; src is the item's place in the
\* spine.
RECURSIVE navPoints(_, _)
navPoints(spine, i) ==
    IF i >= Len(spine) THEN <<>>
    ELSE (IF spine[i + 1].title # <<>>
          THEN <<[src |-> i + 1, label |-> spine[i + 1].title]>>
          ELSE <<>>)
         \o navPoints(spine, i + 1)

\* flattenNavPoints over navPoints without children.
RECURSIVE flattenNavPoints(_, _, _)
flattenNavPoints(points, map, level) ==
    IF points = <<>> THEN <<>>
    ELSE <<[Title |-> TrimSpace(Head(points).label),
            WordIndex |-> map[Head(points).src],
            Level |-> level]>>
         \o flattenNavPoints(Tail(points), map, level)

\* EPUBFormat.TOC
EPUBTOC(f) ==
    IF ~f.opens \/ f.rootfiles = 0 THEN noResult
    ELSE [err |-> FALSE, text |-> <<>>, chapters |-> <<>>, words |-> <<>>,
          entries |-> flattenNavPoints(navPoints(f.spine, 0),
                                       spineMap(f.spine, 0, 0), 0)]

\* Files handed to the pipeline: Markdown files and EPUB archives, readable
\* or not; an archive has a root file or none.
SourceFiles ==
    [format : {"Markdown"}, opens : {TRUE}, lines : LinesUpTo(MaxLines),
     rootfiles : {0}, spine : {<<>>}]
      \cup [format : {"Markdown", "EPUB"}, opens : {FALSE}, lines : {<<>>},
            rootfiles : {0}, spine : {<<>>}]
      \cup [format : {"EPUB"}, opens : {TRUE}, lines : {<<>>},
            rootfiles : {0, 1}, spine : SpinesUpTo(MaxSpine)]

InitExtract ==
    /\ input \in SourceFiles
    /\ output = <<>>
    /\ NoSession
    /\ NoStore

MarkdownExtractChaptersCall ==
    /\ input.format = "Markdown"
    /\ output = <<>>
    /\ output' = <<[op |-> "ExtractChapters", r |-> MarkdownExtractChapters(input)]>>
    /\ UNCHANGED input
    /\ UNCHANGED offCall

MarkdownExtractCall ==
    /\ input.format = "Markdown"
    /\ output = <<>>
    /\ output' = <<[op |-> "Extract", r |-> MarkdownExtract(input)]>>
    /\ UNCHANGED input
    /\ UNCHANGED offCall

MarkdownTOCCall ==
    /\ input.format = "Markdown"
    /\ output = <<>>
    /\ output' = <<[op |-> "TOC", r |-> MarkdownTOC(input)]>>
    /\ UNCHANGED input
    /\ UNCHANGED offCall

EPUBExtractChaptersCall ==
    /\ input.format = "EPUB"
    /\ output = <<>>
    /\ output' = <<[op |-> "ExtractChapters", r |-> EPUBExtractChapters(input)]>>
    /\ UNCHANGED input
    /\ UNCHANGED offCall

ExtractTextFromEPUBCall ==
    /\ input.format = "EPUB"
    /\ output = <<>>
    /\ output' = <<[op |-> "ExtractTextFromEPUB", r |-> ExtractTextFromEPUB(input)]>>
    /\ UNCHANGED input
    /\ UNCHANGED offCall

EPUBTOCCall ==
    /\ input.format = "EPUB"
    /\ output = <<>>
    /\ output' = <<[op |-> "TOC", r |-> EPUBTOC(input)]>>
    /\ UNCHANGED input
    /\ UNCHANGED offCall

NextExtract ==
    \/ MarkdownExtractCall
    \/ MarkdownExtractChaptersCall
    \/ MarkdownTOCCall
    \/ EPUBExtractChaptersCall
    \/ EPUBTOCCall
    \/ ExtractTextFromEPUBCall

SpecExtract == InitExtract /\ [][NextExtract]_vars

\* ------------------------------------------------- calls of pure functions
MaxListLen == 3

\* Words as FindSentenceStarts tells them apart: by their last byte, or
\* empty.
SentenceWords ==
    { <<>>, <<"a">>, <<"a", ".">>, <<"a", "!">>, <<"?">>, <<".", "a">> }

RECURSIVE ListsUpTo(_, _)
ListsUpTo(S, n) ==
    IF n = 0 THEN {<<>>}
    ELSE LET shorter == ListsUpTo(S, n - 1)
         IN  shorter \cup {Append(l, x) : l \in {y \in shorter : Len(y) = n - 1}, x \in S}

InitSentences ==
    /\ input \in ListsUpTo(SentenceWords, MaxListLen)
    /\ output = <<>>
    /\ NoSession
    /\ NoStore

FindSentenceStartsCall ==
    /\ output = <<>>
    /\ output' = <<FindSentenceStarts(input)>>
    /\ UNCHANGED input
    /\ UNCHANGED offCall

NextSentences == FindSentenceStartsCall

SpecSentences == InitSentences /\ [][NextSentences]_vars

\* ---------------------------------------------------- GetORPPosition calls
MaxWordLen == 6

\* Characters by the bytes of their UTF-8 encoding: "a" is one byte; "E"
\* stands for a character of two bytes, such as U+00E9.
Chars == {"a", "E"}

utf8Len(c) == IF c = "a" THEN 1 ELSE 2

\* len(word): the bytes of the string.
RECURSIVE ByteLen(_)
ByteLen(word) ==
    IF word = <<>> THEN 0 ELSE utf8Len(Head(word)) + ByteLen(Tail(word))

\* utf8.RuneCountInString(word): the characters of the string.
RuneCountInString(word) == Len(word)

\* The branches both versions of GetORPPosition share.
orpOfLength(length) ==
    IF length <= 1 THEN 0
    ELSE IF length <= 5 THEN 1
    ELSE length \div 3

\* GetORPPosition of the Reader with chapters.
GetORPPosition(word) == orpOfLength(RuneCountInString(word))

\* GetORPPosition of internal/reader/reader.go.
GetORPPositionBytes(word) == orpOfLength(ByteLen(word))

InitORP ==
    /\ input \in ListsUpTo(Chars, MaxWordLen)
    /\ output = <<>>
    /\ NoSession
    /\ NoStore

GetORPPositionCall ==
    /\ output = <<>>
    /\ output' = <<GetORPPosition(input)>>
    /\ UNCHANGED input
    /\ UNCHANGED offCall

GetORPPositionBytesCall ==
    /\ output = <<>>
    /\ output' = <<GetORPPositionBytes(input)>>
    /\ UNCHANGED input
    /\ UNCHANGED offCall

NextORP ==
    \/ GetORPPositionCall
    \/ GetORPPositionBytesCall

SpecORP == InitORP /\ [][NextORP]_vars

\* ------------------------------------------------------ format registry
MaxFormats == 2

\* Formats by name and extension list: the two of the package, and one of a
\* host that also claims ".md".
Formats ==
    { [name |-> "EPUB", exts |-> << <<".", "e", "p", "u", "b">> >>],
      [name |-> "Markdown", exts |-> << <<".", "m", "d">>,
                                        <<".", "m", "a", "r", "k", "d", "o", "w", "n">> >>],
      [name |-> "Notes", exts |-> << <<".", "t", "x", "t">>, <<".", "m", "d">> >>] }

\* filepath.Ext of the file names tried: the suffix from the last dot, as
\* written.
FileExts ==
    { <<>>, <<".", "m", "d">>, <<".", "M", "D">>, <<".", "M", "d">>,
      <<".", "e", "p", "u", "b">>, <<".", "E", "P", "U", "B">>,
      <<".", "t", "x", "t">>, <<".", "d", "o", "c">> }

\* A file name by its extension, and whether os.ReadFile can read the file.
PathNames == [ext : FileExts, readable : BOOLEAN]

\* unicode.ToLower on the letters that occur.
lowerOf(c) ==
    CASE c = "M" -> "m"
      [] c = "D" -> "d"
      [] c = "E" -> "e"
      [] c = "P" -> "p"
      [] c = "U" -> "u"
      [] c = "B" -> "b"
      [] OTHER -> c

\* strings.ToLower.
ToLower(str) == [k \in 1 .. Len(str) |-> lowerOf(str[k])]

\* f.Extract(filename): whatever the format makes of the file.
Extract(f, filename) ==
    IF filename.readable
    THEN [text |-> <<f.name, "text of", filename.ext>>, err |-> "nil"]
    ELSE [text |-> <<>>, err |-> "open"]

\* os.ReadFile(filename), returned as a string.
ReadFile(filename) ==
    IF filename.readable
    THEN [text |-> <<"bytes of", filename.ext>>, err |-> "nil"]
    ELSE [text |-> <<>>, err |-> "read"]

\* The inner loop: whether exts[j..] holds ext.
RECURSIVE hasExt(_, _, _)
hasExt(exts, j, ext) ==
    IF j > Len(exts) THEN FALSE
    ELSE IF ext = exts[j] THEN TRUE
    ELSE hasExt(exts, j + 1, ext)

RECURSIVE scanRegistry_lastMatch(_, _, _)
scanRegistry_lastMatch(reg, i, ext) ==
    IF i > Len(reg) THEN 0
    ELSE LET later == scanRegistry_lastMatch(reg, i + 1, ext)
         IN  IF later # 0 THEN later
             ELSE IF hasExt(reg[i].exts, 1, ext) THEN i
             ELSE 0

\* The outer loop: the place in reg[i..] of the first format that lists
\* ext, 0 when the loop falls through.
RECURSIVE scanRegistry(_, _, _)
scanRegistry(reg, i, ext) ==
    IF i > Len(reg) THEN 0
    ELSE IF hasExt(reg[i].exts, 1, ext) THEN i
    ELSE scanRegistry(reg, i + 1, ext)

ExtractText(reg, filename) ==
    LET ext == ToLower(filename.ext)
        i == scanRegistry(reg, 1, ext)
    IN  IF i # 0 THEN Extract(reg[i], filename) ELSE ReadFile(filename)

\* Package initialisation, before any format has registered itself.
InitFormats ==
    /\ input = <<>>
    /\ output = <<>>
    /\ NoSession
    /\ NoStore

\* Register(f) appends; the record of an earlier call is dropped.
Register ==
    \E f \in Formats :
        /\ Len(registry) < MaxFormats
        /\ registry' = Append(registry, f)
        /\ input' = <<>>
        /\ output' = <<>>
        /\ UNCHANGED <<session, store, surroundings, instances>>

ExtractTextCall ==
    \E filename \in PathNames :
        /\ input' = <<filename>>
        /\ output' = <<ExtractText(registry, filename)>>
        /\ UNCHANGED <<session, store, surroundings, registry, instances>>

NextFormats ==
    \/ Register
    \/ ExtractTextCall

SpecFormats == InitFormats /\ [][NextFormats]_vars

\* ---------------------------------------------------------- ParseText calls
MaxTextLen == 4

\* A letter, a sentence end and two separators.
TextChars == {"a", ".", " ", "\n"}

InitParse ==
    /\ input \in ListsUpTo(TextChars, MaxTextLen)
    /\ output = <<>>
    /\ NoSession
    /\ NoStore

ParseTextCall ==
    /\ output = <<>>
    /\ output' = <<ParseText(input)>>
    /\ UNCHANGED input
    /\ UNCHANGED offCall

NextParse == ParseTextCall

SpecParse == InitParse /\ [][NextParse]_vars

\* ================================================================ claims
SetMax(S) == CHOOSE x \in S : \A y \in S : y <= x

SetMin(S) == CHOOSE x \in S : \A y \in S : x <= y

StartsSet == {SentenceStarts[k] : k \in 1 .. Len(SentenceStarts)}

ChaptersStartingBy(w) ==
    {i \in 0 .. Len(Chapters) - 1 : Chapters[i + 1].WordStart <= w}

Clamp(x) == IF x < MinWPM THEN MinWPM ELSE IF x > MaxWPM THEN MaxWPM ELSE x

\* C1: on a session over a non-empty word stream, whatever operations and
\* events have happened, 0 <= CurrentIndex < len(Words).
C1_IndexInRange ==
    Len(Words) > 0 => (0 <= CurrentIndex /\ CurrentIndex < Len(Words))

\* An Advance was refused at the last word of a stream of several words, and
\* the session was paused afterwards.
C1_Witness ==
    /\ Len(Words) > 1
    /\ CurrentIndex = Len(Words) - 1
    /\ lastCall = <<"Advance", FALSE>>
    /\ Paused

\* C2: Advance() (called directly, or by the tick handler when not paused)
\* adds exactly one to CurrentIndex and returns true when
\* CurrentIndex < len(Words)-1; otherwise it returns false and leaves
\* CurrentIndex alone.  It changes neither WPM nor Paused.
C2_AdvanceContract ==
    [][(Advance \/ (TickMsg /\ ~Paused)) =>
          /\ IF CurrentIndex < Len(Words) - 1
             THEN CurrentIndex' = CurrentIndex + 1 /\ lastCall' = <<"Advance", TRUE>>
             ELSE CurrentIndex' = CurrentIndex /\ lastCall' = <<"Advance", FALSE>>
          /\ WPM' = WPM
          /\ Paused' = Paused]_vars

\* The last Advance returned true and the session stands on the last word.
C2_Witness ==
    /\ Len(Words) > 1
    /\ CurrentIndex = Len(Words) - 1
    /\ lastCall = <<"Advance", TRUE>>

\* C3 (as claimed): in every reachable state 100 <= WPM <= 1500.
C3_WPMInRange == MinWPM <= WPM /\ WPM <= MaxWPM

\* C4 (as claimed): CurrentChapter is the largest i with
\* Chapters[i].WordStart <= CurrentIndex, and 0 when there is none.
C4_ChapterTracksIndex ==
    CurrentChapter = (IF ChaptersStartingBy(CurrentIndex) = {} THEN 0
                      ELSE SetMax(ChaptersStartingBy(CurrentIndex)))

\* C5 (as claimed): at most one tick is scheduled and not yet delivered.
C5_SingleTimer == ticks <= 1

\* C6: a tick delivered while Paused changes nothing of the session, and a
\* tick that moves CurrentIndex is delivered with Paused false.
C6_PausedTickIsNoOp ==
    [][TickMsg =>
          /\ Paused => UNCHANGED <<reader, quitting, quitCmd, lastCall>>
          /\ CurrentIndex' # CurrentIndex => ~Paused]_vars

\* A tick was delivered in the paused state before the end of the stream,
\* after an Advance: none is scheduled any more, and the program has not
\* finished.
C6_Witness ==
    /\ Paused
    /\ lastCall = <<"Advance", TRUE>>
    /\ ticks = 0
    /\ ~quitting
    /\ CurrentIndex < Len(Words) - 1

\* C7: JumpToPrevSentence() moves CurrentIndex to the largest entry of
\* SentenceStarts strictly below it, to 0 when there is none, and never
\* increases it.
C7_PrevSentenceContract ==
    [][JumpToPrevSentence =>
          LET before == {x \in StartsSet : x < CurrentIndex}
          IN  /\ CurrentIndex' = IF before = {} THEN 0 ELSE SetMax(before)
              /\ CurrentIndex' <= CurrentIndex]_vars

\* Three sentences; the last call was JumpToPrevSentence and it left the
\* session on the start of the middle sentence.
C7_Witness ==
    /\ SentenceStarts = <<0, 1, 2>>
    /\ lastCall = <<"JumpToPrevSentence">>
    /\ CurrentIndex = 1

\* C8 (as claimed): JumpToNextSentence() moves CurrentIndex to the smallest
\* entry of SentenceStarts strictly above it, to len(Words)-1 when there is
\* none, and never decreases it.
C8_NextSentenceAsClaimed ==
    [][JumpToNextSentence =>
          LET after == {x \in StartsSet : x > CurrentIndex}
          IN  /\ CurrentIndex' = IF after = {} THEN Len(Words) - 1 ELSE SetMin(after)
              /\ CurrentIndex' >= CurrentIndex]_vars

\* C8 (amended): as claimed when the stream is non-empty; on an empty stream
\* JumpToNextSentence() leaves CurrentIndex as it is.
C8_NextSentenceContract ==
    [][JumpToNextSentence =>
          LET after == {x \in StartsSet : x > CurrentIndex}
          IN  /\ CurrentIndex' = IF after # {} THEN SetMin(after)
                                 ELSE IF Len(Words) > 0 THEN Len(Words) - 1
                                 ELSE CurrentIndex
              /\ CurrentIndex' >= CurrentIndex]_vars

\* No sentence starts after the first word of a stream of several words; the
\* last call was JumpToNextSentence and it left the session on the last word.
C8_Witness ==
    /\ Len(Words) > 1
    /\ SentenceStarts = <<0>>
    /\ lastCall = <<"JumpToNextSentence">>
    /\ CurrentIndex = Len(Words) - 1

\* C9: JumpToChapter(w) with 0 <= w < len(Words) sets CurrentIndex to w and
\* CurrentChapter to the last chapter whose WordStart <= w; with w out of
\* bounds it changes neither.
C9_JumpToChapterContract ==
    [][\A w \in JumpTargets :
          JumpToChapterCall(w) =>
             IF 0 <= w /\ w < Len(Words)
             THEN /\ CurrentIndex' = w
                  /\ ChaptersStartingBy(w) # {} =>
                        CurrentChapter' = SetMax(ChaptersStartingBy(w))
             ELSE CurrentIndex' = CurrentIndex /\ CurrentChapter' = CurrentChapter]_vars

\* Two chapters; the last call was JumpToChapter and it left the session
\* inside the second chapter, past its first word.
C9_Witness ==
    /\ Len(Chapters) = 2
    /\ lastCall = <<"JumpToChapter">>
    /\ CurrentIndex > Chapters[2].WordStart
    /\ CurrentChapter = 1

\* C10 (as claimed): a speed key sets WPM to clamp(WPM + delta, 100, 1500).
C10_SpeedIsClamp ==
    [][/\ (KeyPlus \/ KeyUp) => WPM' = Clamp(WPM + SpeedStep)
       /\ (KeyMinus \/ KeyDown) => WPM' = Clamp(WPM - SpeedStep)]_vars

\* C11: the pause toggle flips Paused and leaves CurrentIndex, WPM,
\* CurrentChapter, Words and SentenceStarts unchanged.
C11_TogglePauseFrame ==
    [][KeySpace =>
          /\ Paused' = ~Paused
          /\ UNCHANGED <<CurrentIndex, WPM, CurrentChapter, Words, SentenceStarts>>]_vars

\* Paused, and no Reader method was ever called (so no arrow key paused the
\* session): the pause came from the space key.
C11_Witness ==
    /\ Paused
    /\ lastCall = <<>>
    /\ ticks = 1
    /\ ~quitting

\* C12: on a new session over n >= 1 words driven by Advance() alone,
\* Progress() is (1, n) at the start; Advance() returns true while
\* Progress() moves from (2, n) up to (n, n), so exactly n-1 times; it
\* returns false only at (n, n), and once it has returned false it returns
\* false ever after.  Progress() is (CurrentIndex+1, len(Words)) throughout.
C12_ProgressAndAdvance ==
    /\ [](Len(Words) >= 1 =>
            LET prog == Progress(CurrentIndex, Words)
                n == Len(Words)
            IN  /\ prog = <<CurrentIndex + 1, n>>
                /\ lastCall = <<>> => prog = <<1, n>>
                /\ lastCall = <<"Advance", TRUE>> => prog[1] \in 2 .. n
                /\ lastCall = <<"Advance", FALSE>> => prog = <<n, n>>)
    /\ [][Advance =>
             LET prog == Progress(CurrentIndex, Words)
             IN  /\ lastCall' = <<"Advance", prog[1] < prog[2]>>
                 /\ prog[1] < prog[2] =>
                       Progress(CurrentIndex', Words') = <<prog[1] + 1, prog[2]>>
                 /\ lastCall = <<"Advance", FALSE>> =>
                       lastCall' = <<"Advance", FALSE>>]_vars

\* A stream of several words read to its end: the last Advance() returned
\* false and Progress() is (n, n).
C12_Witness ==
    /\ Len(Words) > 1
    /\ lastCall = <<"Advance", FALSE>>
    /\ Progress(CurrentIndex, Words) = <<Len(Words), Len(Words)>>

\* C13 (as claimed): the driver enters its completed state only by a tick
\* whose Advance() returned false.
C13_FinishedOnlyByTick ==
    [][(~viewComplete /\ viewComplete') =>
          (TickMsg /\ lastCall' = <<"Advance", FALSE>>)]_vars

\* What GetPosition would return for each fingerprint on the map m.
positionsOf(m) == [hash \in Fingerprints |-> getPosition(m, hash)]

inWrite(p) == pc[p].at \in {"SetPosition", "SetPosition.save", "Clear", "Clear.save"}

inRead(p) == pc[p].at = "GetPosition"

quiescent == \A p \in Procs : ~inWrite(p)

\* C14: the store is a map from fingerprint to index with default 0:
\* GetPosition returns the record's index, 0 without a record, and changes
\* nothing; SetPosition(fp, n) makes the position of fp n and Clear(fp) makes
\* it 0, both leaving every other fingerprint's position alone; the position
\* is n when a successful SetPosition returns.
C14_StoreIsMap ==
    [][\A p \in Procs :
          /\ GetPositionReturn(p) =>
                /\ lastOp'.n = positionsOf(data)[pc[p].fp]
                /\ ~hasRecord(data, pc[p].fp) => lastOp'.n = 0
                /\ positionsOf(data') = positionsOf(data)
          /\ SetPositionUpdate(p) =>
                positionsOf(data') = [positionsOf(data) EXCEPT ![pc[p].fp] = pc[p].n]
          /\ ClearUpdate(p) =>
                positionsOf(data') = [positionsOf(data) EXCEPT ![pc[p].fp] = 0]
          /\ SetPositionSave(p) =>
                /\ positionsOf(data') = positionsOf(data)
                /\ ~lastOp'.err => positionsOf(data')[pc[p].fp] = pc[p].n
          /\ ClearSave(p) =>
                /\ positionsOf(data') = positionsOf(data)
                /\ positionsOf(data')[pc[p].fp] = 0]_vars

\* Clear(fp) has returned: fp is back at 0 and another fingerprint still has
\* its non-zero position.
C14_Witness ==
    /\ lastOp.op = "Clear"
    /\ quiescent
    /\ getPosition(data, lastOp.fp) = 0
    /\ \E hash \in Fingerprints : getPosition(data, hash) # 0

\* C15: when the last mutation of the store has returned without error and
\* no mutation is under way, the state file is the encoding of the store's
\* map, and a store opened on it holds the same map, so the same position
\* for every fingerprint.
C15_PersistsImmediately ==
    (opened /\ quiescent /\ lastSave = "ok") =>
        /\ file = JSONFile(Marshal(data))
        /\ NewStateStore(TRUE, file).data = data
        /\ positionsOf(NewStateStore(TRUE, file).data) = positionsOf(data)

\* Two records saved, one of them at index 0, while another goroutine is
\* inside GetPosition.
C15_Witness ==
    /\ lastSave = "ok"
    /\ quiescent
    /\ Cardinality(data) = 2
    /\ \E e \in data : e[2] = 0
    /\ \E p \in Procs : inRead(p)

\* C16: while a goroutine is between Lock and Unlock of SetPosition or
\* Clear, no other goroutine is inside any method of the store; only
\* GetPosition calls overlap.
C16_WritersExclusive ==
    \A p \in Procs, q \in Procs :
        (p # q /\ inWrite(p)) => (~inWrite(q) /\ ~inRead(q))

\* A writer has changed the map and not yet rewritten the file.
C16_Witness ==
    /\ \E p \in Procs : pc[p].at = "SetPosition.save"
    /\ file.kind = "json"
    /\ Unmarshal(file.entries) # data
    /\ lastOp.op = "GetPosition"

Min(a, b) == IF a <= b THEN a ELSE b

\* The byte at position i (from 1) of a file given as runs.
RECURSIVE byteAt(_, _)
byteAt(c, i) == IF i <= c[1].n THEN c[1].b ELSE byteAt(Tail(c), i - c[1].n)

\* The positions where a run starts.
RECURSIVE runStarts(_, _)
runStarts(c, from) ==
    IF c = <<>> THEN {} ELSE {from} \cup runStarts(Tail(c), from + c[1].n)

\* The two files hold the same bytes at positions 1 .. m: both are constant
\* between run starts, so agreeing at every run start of either is agreeing
\* everywhere.
agreeUpTo(a, b, m) ==
    \A i \in (runStarts(a, 1) \cup runStarts(b, 1)) :
        i <= m => byteAt(a, i) = byteAt(b, i)

\* C18: two files whose first min(length, 8192) bytes are the same in number
\* and in value get the same fingerprint of 32 characters, whatever their
\* names and whatever follows those bytes.
C18_HashOfPrefixOnly ==
    output # <<>> =>
        LET a == input[1].content
            b == input[2].content
            m == Min(size(a), hashBytes)
        IN  (m = Min(size(b), hashBytes) /\ agreeUpTo(a, b, m)) =>
                /\ ~output[1][1].err
                /\ ~output[1][2].err
                /\ output[1][1].hash = output[1][2].hash
                /\ output[1][1].hash.chars = 32

\* Two files of different names and lengths, both longer than 8192 bytes and
\* different after byte 8192, with one fingerprint.
C18_Witness ==
    /\ output # <<>>
    /\ input[1].name # input[2].name
    /\ size(input[1].content) > hashBytes
    /\ size(input[2].content) > size(input[1].content)
    /\ input[1].content # input[2].content
    /\ byteAt(input[1].content, hashBytes + 1) # byteAt(input[2].content, hashBytes + 1)
    /\ output[1][1].hash = output[1][2].hash

\* C19: the chapters ExtractChapters returns without error, for Markdown
\* and for EPUB, are ordered, disjoint and contiguous: WordStart <= WordEnd
\* for each, and each chapter starts one word after the chapter before ends.
C19_ChaptersContiguous ==
    (output # <<>> /\ output[1].op = "ExtractChapters" /\ ~output[1].r.err) =>
        LET chapters == output[1].r.chapters
        IN  \A i \in 1 .. Len(chapters) :
               /\ chapters[i].WordStart <= chapters[i].WordEnd
               /\ i < Len(chapters) =>
                     chapters[i + 1].WordStart = chapters[i].WordEnd + 1

\* A Markdown file with words before its first header and two headers: two
\* chapters, the first starting after word 0.
C19_Witness ==
    /\ output # <<>>
    /\ input.format = "Markdown"
    /\ Len(output[1].r.chapters) = 2
    /\ output[1].r.chapters[1].WordStart > 0
    /\ output[1].r.chapters[2].WordEnd > output[1].r.chapters[2].WordStart

\* C20 (as claimed): EPUB extraction returns an error, and neither text nor
\* chapters, when the archive has no root file or none of its spine items is
\* usable.
C20_NoContentIsAnError ==
    (output # <<>> /\ input.format = "EPUB" /\ input.opens
        /\ (input.rootfiles = 0
            \/ \A i \in 1 .. Len(input.spine) : ~usable(input.spine[i]))) =>
        /\ output[1].r.err
        /\ output[1].r.text = <<>>
        /\ output[1].r.chapters = <<>>

\* A spine item the walk can use: resolved, opening and reading.
readable(item) == item.state \notin {"nil", "openfail", "readfail"}

\* The archive with only its readable spine items, in spine order.
readableOnly(f) == [f EXCEPT !.spine = SelectSeq(f.spine, readable)]

someReadable(f) == \E i \in 1 .. Len(f.spine) : readable(f.spine[i])

\* What the call that produced the output returns on the file f.
sameCallOn(f) ==
    IF output[1].op = "ExtractTextFromEPUB" THEN ExtractTextFromEPUB(f)
    ELSE EPUBExtractChapters(f)

\* The positions in the spine of the items that yield a chapter.
chapterItems(spine) ==
    SelectSeq([i \in 1 .. Len(spine) |-> i],
              LAMBDA i : /\ readable(spine[i])
                         /\ ParseText(extractTextFromHTML(spine[i].nodes)) # <<>>)

epubCall ==
    /\ output # <<>>
    /\ input.format = "EPUB"
    /\ output[1].op \in {"ExtractTextFromEPUB", "ExtractChapters"}
    /\ input.opens
    /\ input.rootfiles > 0
    /\ someReadable(input)

\* C21 (as claimed): with a usable item in the spine, the walk returns no
\* error and exactly the result of the walk over the usable items alone.
C21_SkipIsExact ==
    epubCall =>
        /\ ~output[1].r.err
        /\ output[1].r = sameCallOn(readableOnly(input))

\* C21 (amended): with a usable item in the spine, the walk returns no
\* error; its text, its words and its chapters' word ranges are those of the
\* walk over the usable items alone; a chapter's title is the NCX title of
\* its item or else "Section N" with N the item's place in the whole spine.
C21_SkipKeepsSpinePlace ==
    epubCall =>
        LET r == output[1].r
            alone == sameCallOn(readableOnly(input))
            items == chapterItems(input.spine)
        IN  /\ ~r.err
            /\ r.text = alone.text
            /\ r.words = alone.words
            /\ Len(r.chapters) = Len(alone.chapters)
            /\ \A k \in 1 .. Len(r.chapters) :
                  /\ r.chapters[k].WordStart = alone.chapters[k].WordStart
                  /\ r.chapters[k].WordEnd = alone.chapters[k].WordEnd
                  /\ r.chapters[k].Title =
                        IF input.spine[items[k]].title # <<>>
                        THEN input.spine[items[k]].title
                        ELSE <<"Section", items[k]>>

\* An item that fails to open, then a readable item the NCX does not name:
\* one chapter, titled by the second place in the spine.
C21_Witness ==
    /\ epubCall
    /\ output[1].op = "ExtractChapters"
    /\ input.spine[1].state = "openfail"
    /\ Len(output[1].r.chapters) = 1
    /\ output[1].r.chapters[1].Title = <<"Section", 2>>
    /\ output[1].r.chapters[1].WordEnd > 0

\* A header line as the claims word it: 1 to 6 '#', then white space, then
\* at least one more character.
hashesOf(line) ==
    {h \in 1 .. 6 : /\ Len(line) >= h + 2
                    /\ \A k \in 1 .. h : line[k] = "#"
                    /\ line[h + 1] \in Whitespace}

headerLine(line) == hashesOf(line) # {}

hasWord(line) == \E k \in 1 .. Len(line) : line[k] \notin Whitespace

markdownCall(op) ==
    /\ output # <<>>
    /\ input.format = "Markdown"
    /\ input.opens
    /\ output[1].op = op

\* C22: for a Markdown file with words and no header line, ExtractChapters
\* returns the one chapter "Document" from word 0 to the last word, and TOC
\* returns no entry.
C22_NoHeaderOneDocument ==
    (/\ \A i \in 1 .. Len(input.lines) : ~headerLine(input.lines[i])
     /\ \E i \in 1 .. Len(input.lines) : hasWord(input.lines[i])) =>
        /\ markdownCall("ExtractChapters") =>
              /\ ~output[1].r.err
              /\ Len(output[1].r.words) > 0
              /\ output[1].r.chapters =
                    <<[Title |-> <<"Document">>,
                       WordStart |-> 0,
                       WordEnd |-> Len(output[1].r.words) - 1]>>
        /\ markdownCall("TOC") =>
              /\ ~output[1].r.err
              /\ output[1].r.entries = <<>>

\* Lines that start with '#' and are no headers, and several words: one
\* chapter "Document" over all of them.
C22_Witness ==
    /\ markdownCall("ExtractChapters")
    /\ Len(input.lines) = 3
    /\ input.lines[1] = <<"#", "a">>
    /\ input.lines[2] = <<"#", " ">>
    /\ input.lines[3] = <<" ", "#", " ", "a">>
    /\ Len(output[1].r.chapters) = 1
    /\ output[1].r.chapters[1].Title = <<"Document">>
    /\ output[1].r.chapters[1].WordEnd = 3

\* The lines of the file that are headers, by line number.
headerLines(lines) ==
    SelectSeq([i \in 1 .. Len(lines) |-> i], LAMBDA i : headerLine(lines[i]))

\* The number of words on the lines before line i.
RECURSIVE wordsBefore(_, _)
wordsBefore(lines, i) ==
    IF i <= 1 THEN 0
    ELSE wordsBefore(lines, i - 1) + Len(ParseText(lines[i - 1]))

\* C23: Markdown TOC has one entry per header line, in document order, with
\* Level the number of '#' less one and WordIndex the number of words on
\* all earlier lines; WordIndex never decreases along the TOC.
C23_TOCPerHeader ==
    markdownCall("TOC") =>
        LET entries == output[1].r.entries
            hdrs == headerLines(input.lines)
        IN  /\ ~output[1].r.err
            /\ Len(entries) = Len(hdrs)
            /\ \A k \in 1 .. Len(entries) :
                  /\ hashesOf(input.lines[hdrs[k]]) = {entries[k].Level + 1}
                  /\ entries[k].WordIndex = wordsBefore(input.lines, hdrs[k])
                  /\ k > 1 => entries[k - 1].WordIndex <= entries[k].WordIndex

\* Words, a level-1 header, a level-2 header: two entries, the first after
\* word 0, the second further on and one level down.
C23_Witness ==
    /\ markdownCall("TOC")
    /\ Len(output[1].r.entries) = 2
    /\ output[1].r.entries[1].WordIndex > 0
    /\ output[1].r.entries[1].Level = 0
    /\ output[1].r.entries[2].Level = 1
    /\ output[1].r.entries[2].WordIndex > output[1].r.entries[1].WordIndex

endsSentence(word) == word # <<>> /\ word[Len(word)] \in {".", "!", "?"}

SeqSet(q) == {q[k] : k \in 1 .. Len(q)}

\* The properties C24 gives the list of sentence starts of the words.
sentenceStartsOf(starts, words) ==
    /\ \A k \in 1 .. Len(starts) - 1 : starts[k] < starts[k + 1]
    /\ \A k \in 1 .. Len(starts) : 0 <= starts[k] /\ starts[k] < Len(words)
    /\ Len(words) > 0 => 0 \in SeqSet(starts)
    /\ \A i \in 1 .. Len(words) - 1 :
          i \in SeqSet(starts) <=> endsSentence(words[i])

\* C24 (as claimed): FindSentenceStarts(words) is strictly increasing, holds
\* valid indices of words only, holds 0 when words is not empty, and holds
\* i >= 1 exactly when word i-1 ends in '.', '!' or '?'.
C24_StartsAreValidIndices ==
    output # <<>> => sentenceStartsOf(output[1], input)

\* C24 (amended): the same for a list of words that is not empty; for the
\* empty list FindSentenceStarts returns [0].
C24_StartsOfNonEmpty ==
    output # <<>> =>
        IF input = <<>> THEN output[1] = <<0>>
        ELSE sentenceStartsOf(output[1], input)

\* Three words, the first and the last ending a sentence: starts 0 and 1,
\* and no start after the last word.
C24_Witness ==
    /\ output # <<>>
    /\ Len(input) = 3
    /\ endsSentence(input[1])
    /\ ~endsSentence(input[2])
    /\ endsSentence(input[3])
    /\ output[1] = <<0, 1>>

lastSentenceStart == SentenceStarts[Len(SentenceStarts)]

\* C25 (as claimed): JumpToPrevSentence() at index 0 stays at 0, and
\* JumpToNextSentence() from an index at or after the last sentence start
\* goes to len(Words)-1, where every further call leaves it.
C25_EdgesIdempotent ==
    [][/\ (JumpToPrevSentence /\ CurrentIndex = 0) => CurrentIndex' = 0
       /\ (JumpToNextSentence /\ CurrentIndex >= lastSentenceStart) =>
             CurrentIndex' = Len(Words) - 1]_vars

\* C25 (amended): the same on a stream that is not empty; on the empty
\* stream both calls leave CurrentIndex at 0.
C25_EdgesIdempotentNonEmpty ==
    [][/\ (JumpToPrevSentence /\ CurrentIndex = 0) => CurrentIndex' = 0
       /\ (JumpToNextSentence /\ CurrentIndex >= lastSentenceStart) =>
             CurrentIndex' = IF Len(Words) > 0 THEN Len(Words) - 1 ELSE 0
       /\ (JumpToNextSentence /\ Len(Words) > 0 /\ CurrentIndex = Len(Words) - 1) =>
             CurrentIndex' = Len(Words) - 1]_vars

\* The last sentence starts at word 1 of several; JumpToNextSentence() has
\* left the session on the last word, so it was called at or after word 1.
C25_Witness ==
    /\ Len(Words) > 2
    /\ SentenceStarts = <<0, 1>>
    /\ lastCall = <<"JumpToNextSentence">>
    /\ CurrentIndex = Len(Words) - 1


\* The delay d (ms) is 60000/wpm within one millisecond.
withinOneMs(d, wpm) ==
    /\ d * wpm - 60000 <= wpm
    /\ 60000 - d * wpm <= wpm

\* C26: for every WPM in 100 .. 1500 the delay of a scheduled tick is
\* 60000/WPM milliseconds within one millisecond (500 -> 120, 300 -> 200,
\* 100 -> 600), and the tick scheduled after each advance carries the delay
\* of the WPM current at that moment.
C26_DelayFollowsWPM ==
    /\ [](cmdDelay # <<>> /\ WPM \in MinWPM .. MaxWPM =>
            /\ withinOneMs(cmdDelay[1], WPM)
            /\ (WPM = 500 => cmdDelay[1] = 120)
            /\ (WPM = 300 => cmdDelay[1] = 200)
            /\ (WPM = 100 => cmdDelay[1] = 600))
    /\ [][CurrentIndex' # CurrentIndex =>
            /\ cmdDelay' # <<>>
            /\ withinOneMs(cmdDelay'[1], WPM')]_vars

\* A tick advanced at 500 WPM and scheduled the next tick 120ms later.
C26_Witness ==
    /\ lastCall = <<"Advance", TRUE>>
    /\ WPM = 500
    /\ cmdDelay = <<120>>


\* C27: GetORPPosition(word), with L the number of characters of word (not
\* bytes), is 0 for L <= 1, 1 for 2 <= L <= 5 and floor(L/3) for L >= 6; a
\* multi-byte character counts as one.
C27_ORPCountsCharacters ==
    output # <<>> =>
        LET L == Len(input)
        IN  output[1] = (IF L <= 1 THEN 0 ELSE IF L <= 5 THEN 1 ELSE L \div 3)


\* The formats, by place in the registry, whose extension list holds ext.
formatsListing(ext) ==
    {i \in 1 .. Len(registry) :
        \E j \in 1 .. Len(registry[i].exts) : registry[i].exts[j] = ext}

\* C28: ExtractText(path) lowercases the extension of path and returns the
\* result of the first format, in registration order, whose extension list
\* holds it; when no format does, it returns the raw content of the file,
\* or the read error.
C28_FirstRegisteredFormat ==
    output # <<>> =>
        LET filename == input[1]
            listing == formatsListing(ToLower(filename.ext))
        IN  IF listing # {}
            THEN output[1] = Extract(registry[SetMin(listing)], filename)
            ELSE IF filename.readable
            THEN output[1] = [text |-> <<"bytes of", filename.ext>>, err |-> "nil"]
            ELSE output[1].err = "read"

\* "x.MD" with Markdown registered before a second format that lists ".md":
\* Markdown extracts it.
C28_Witness ==
    /\ output # <<>>
    /\ input[1].ext = <<".", "M", "D">>
    /\ input[1].readable
    /\ Len(registry) = 2
    /\ registry[1].name = "Markdown"
    /\ registry[2].name = "Notes"
    /\ output[1].text[1] = "Markdown"


RECURSIVE concatAll(_)
concatAll(ws) == IF ws = <<>> THEN <<>> ELSE Head(ws) \o concatAll(Tail(ws))

RECURSIVE dropWhitespace(_)
dropWhitespace(text) ==
    IF text = <<>> THEN <<>>
    ELSE IF Head(text) \in Whitespace THEN dropWhitespace(Tail(text))
    ELSE <<Head(text)>> \o dropWhitespace(Tail(text))

\* Where a maximal run of characters that are not whitespace begins.
wordStartsIn(text) ==
    {k \in 1 .. Len(text) :
        /\ text[k] \notin Whitespace
        /\ (k = 1 \/ text[k - 1] \in Whitespace)}

\* C29: ParseText splits on runs of whitespace: the empty text gives the
\* empty stream, consecutive separators collapse (one word per maximal run
\* of other characters), no word is empty or holds whitespace, and the
\* words come in input order.
C29_SplitsOnWhitespaceRuns ==
    output # <<>> =>
        LET words == output[1]
        IN  /\ input = <<>> => words = <<>>
            /\ Len(words) = Cardinality(wordStartsIn(input))
            /\ \A i \in 1 .. Len(words) :
                  /\ words[i] # <<>>
                  /\ \A k \in 1 .. Len(words[i]) : words[i][k] \notin Whitespace
            /\ concatAll(words) = dropWhitespace(input)

\* "a", two separators in a row, ".": two words.
C29_Witness ==
    /\ output # <<>>
    /\ input = <<"a", " ", "\n", ".">>
    /\ output[1] = << <<"a">>, <<".">> >>


\* C30: from any reachable state in which the driver is neither paused nor
\* quitting, if no further key event arrives and pending ticks are
\* eventually delivered, CurrentIndex eventually reaches len(Words)-1 and
\* the driver then quits; in particular, whenever the driver is neither
\* paused nor quitting at least one tick is pending.
C30_ReadsToTheEnd ==
    /\ [](~Paused /\ ~quitting => ticks >= 1)
    /\ (userIdle /\ ~Paused /\ ~quitting) ~>
           (CurrentIndex = Len(Words) - 1 /\ quitting /\ ~running)

\* The user went idle, the ticks read a text of MaxWords words to its end
\* and the program quit.
C30_Witness ==
    /\ userIdle
    /\ ~Paused
    /\ Len(Words) = MaxWords
    /\ lastCall = <<"Advance", FALSE>>
    /\ CurrentIndex = Len(Words) - 1
    /\ quitting
    /\ ~running


\* C31: once the driver has entered its finished/quitting state, no later
\* event (tick, pause toggle, speed key, arrow key) changes CurrentIndex,
\* WPM or Paused.
C31_FinishedIsTerminal ==
    [][quitting =>
          /\ CurrentIndex' = CurrentIndex
          /\ WPM' = WPM
          /\ Paused' = Paused]_vars


\* C33: when SetPosition or Clear returns an error because the file write
\* failed, the store's in-memory record for that fingerprint is what it was
\* before the call, so GetPosition keeps agreeing with the state file.
C33_ErrorLeavesMemory ==
    [][\A p \in Procs :
          ((SetPositionSave(p) \/ ClearSave(p)) /\ lastOp'.err) =>
              recordOf(data', pc[p].fp) = pc[p].was]_vars


\* C32: if two StateStore instances opened on the same state file each
\* perform a successful SetPosition for a different fingerprint, in any
\* order, a store opened afterwards returns both saved positions.
C32_NoLostUpdate ==
    [][\A k \in Instances : InstanceOpen(k) =>
          \A i \in Instances, j \in Instances :
              \A a \in instances[i].saved, b \in instances[j].saved :
                  (i # j /\ a[1] # b[1]) =>
                      /\ getPosition(instances'[k].data, a[1]) = a[2]
                      /\ getPosition(instances'[k].data, b[1]) = b[2]]_vars


\* ExtractChapters of the file's format.
ExtractChaptersOf(f) ==
    IF f.format = "Markdown" THEN MarkdownExtractChapters(f)
    ELSE EPUBExtractChapters(f)

\* C34: for the same file, every TOCEntry.WordIndex returned by TOC
\* (Markdown and EPUB) is a valid index into the word stream returned by
\* ExtractChapters, 0 <= WordIndex < len(words).
C34_TOCIndexInWords ==
    (output # <<>> /\ output[1].op = "TOC" /\ ~output[1].r.err) =>
        \A k \in 1 .. Len(output[1].r.entries) :
            /\ 0 <= output[1].r.entries[k].WordIndex
            /\ output[1].r.entries[k].WordIndex < Len(ExtractChaptersOf(input).words)


\* The chapters of chs that hold word index w.
chaptersHolding(chs, w) ==
    {k \in 1 .. Len(chs) : chs[k].WordStart <= w /\ w <= chs[k].WordEnd}

\* C35: the chapters returned by ExtractChapters cover the whole returned
\* word stream: when words is not empty, Chapters[0].WordStart = 0 and the
\* last chapter's WordEnd = len(words)-1, and every word index lies in
\* exactly one chapter (the one CurrentChapterTitle() then names).
C35_ChaptersCoverWords ==
    (/\ output # <<>>
     /\ output[1].op = "ExtractChapters"
     /\ ~output[1].r.err
     /\ Len(output[1].r.words) > 0) =>
        LET chs == output[1].r.chapters
            n == Len(output[1].r.words)
        IN  /\ Len(chs) > 0
            /\ chs[1].WordStart = 0
            /\ chs[Len(chs)].WordEnd = n - 1
            /\ \A w \in 0 .. n - 1 : Cardinality(chaptersHolding(chs, w)) = 1


\* C36: for a Markdown file with at least one header, TOC and
\* ExtractChapters agree entry by entry: they return the same number of
\* items, and the k-th TOC entry has the Title of the k-th chapter and
\* WordIndex equal to that chapter's WordStart.
C36_TOCMatchesChapters ==
    (markdownCall("TOC") /\ headerLines(input.lines) # <<>>) =>
        LET es == output[1].r.entries
            chs == MarkdownExtractChapters(input).chapters
        IN  /\ Len(es) = Len(chs)
            /\ \A k \in 1 .. Len(es) :
                  /\ es[k].Title = chs[k].Title
                  /\ es[k].WordIndex = chs[k].WordStart

\* Text, then two headers, the second right after the first: two entries
\* and two chapters, the second at word 3.
C36_Witness ==
    /\ markdownCall("TOC")
    /\ Len(input.lines) = 3
    /\ ~headerLine(input.lines[1])
    /\ hasWord(input.lines[1])
    /\ headerLine(input.lines[2])
    /\ headerLine(input.lines[3])
    /\ Len(output[1].r.entries) = 2
    /\ Len(MarkdownExtractChapters(input).chapters) = 2
    /\ output[1].r.entries[2].WordIndex > output[1].r.entries[1].WordIndex


\* Extract of the file's format.
ExtractOf(f) ==
    IF f.format = "Markdown" THEN MarkdownExtract(f) ELSE ExtractTextFromEPUB(f)

\* C37: for the same file, the word stream returned by ExtractChapters
\* equals ParseText applied to the text returned by Extract (Markdown and
\* EPUB).
C37_WordsAreParsedText ==
    (output # <<>> /\ output[1].op = "ExtractChapters" /\ ~output[1].r.err) =>
        /\ ~ExtractOf(input).err
        /\ output[1].r.words = ParseText(ExtractOf(input).text)

\* A Markdown file of three lines with words on each, a header among them.
C37_Witness ==
    /\ markdownCall("ExtractChapters")
    /\ Len(input.lines) = 3
    /\ \A k \in 1 .. 3 : hasWord(input.lines[k])
    /\ headerLine(input.lines[2])
    /\ Len(output[1].r.words) >= 4
    /\ output[1].r.words = ParseText(MarkdownExtract(input).text)

====
